---------------------------- MODULE Spec2Model ----------------------------
(***************************************************************************)
(* OBT.py: the OBT container format.  One OBT instance bound to one path   *)
(* of the filesystem, the calls a client can make on it, and a standalone  *)
(* OBTEntry record.                                                        *)
(*                                                                         *)
(* Files and payloads are sequences of bytes.  Python's bool is an int     *)
(* subclass (True == 1, False == 0): the compressed argument of add_entry  *)
(* is drawn from {0, 1}.  None is the sentinel <<-1>>, which is no byte    *)
(* string.                                                                 *)
(***************************************************************************)
EXTENDS Integers, Sequences, FiniteSets, TLC

VARIABLES
    file_exists,   \* os.path.isfile(self.filename)
    file,          \* the bytes of the file on disk
    mode,          \* OBT.mode
    entries,       \* OBT.entries: dict index -> OBTEntry
    total_size,    \* OBT.total_size
    entry_offset,  \* OBT.entry_offset
    fp,            \* OBT.fp: "None", "rb", "wb+" or "closed"
    wbuf,          \* bytes written through fp and not yet flushed (from position 0)
    res,           \* the last call on the instance and how it ended
    adds,          \* history: the arguments of the successful add_entry calls of this instance
    trace,         \* history: where this instance stands in the write / read protocol
    prev,          \* history: what the previous instance on this path wrote
    rec,           \* a standalone OBTEntry
    rec_res        \* the last call on rec and how it ended

vars == <<file_exists, file, mode, entries, total_size, entry_offset, fp, wbuf,
          res, adds, trace, prev, rec, rec_res>>

obt_vars == <<file_exists, file, mode, entries, total_size, entry_offset, fp, wbuf,
              res, adds, trace, prev>>

---------------------------------------------------------------------------
(* Bounds *)

MaxEntries == 2      \* add_entry calls per instance
MaxRows == 2         \* header rows of an initial file
MaxTotal == 20       \* load is not retried once total_size has grown past this

(* Program constants *)

RowSize == 12        \* 0xC, struct "<III"

None == <<-1>>

OBT_None == "OBT_None"
OBT_Read == "OBT_Read"
OBT_Write == "OBT_Write"

---------------------------------------------------------------------------
(* bytes, struct, file objects *)

Min(a, b) == IF a < b THEN a ELSE b

\* v.to_bytes(4, "little") as struct.pack("<I", v) lays it out
U32Bytes(v) ==
    << v % 256, (v \div 256) % 256, (v \div 65536) % 256, (v \div 16777216) % 256 >>

\* int.from_bytes(b, "little") / struct.unpack("<I", b) of four bytes
\* (every file of the model keeps the top byte below 128, within TLC's integers)
FromBytesLE(b) == b[1] + 256 * b[2] + 65536 * b[3] + 16777216 * b[4]

\* struct.pack("<I", v) raises struct.error unless 0 <= v <= 2^32 - 1
PackOK(v) == v >= 0 /\ v \div 65536 <= 65535

\* struct.pack("<III", off, size, flag)
Pack(off, size, flag) == U32Bytes(off) \o U32Bytes(size) \o U32Bytes(flag)

\* f.seek(pos); f.read(n): at most n bytes, fewer at end of file
ReadAt(f, pos, n) == SubSeq(f, pos + 1, Min(pos + n, Len(f)))

\* flushing a write buffer that starts at position 0 over the bytes on disk
Flush(f, buf) == buf \o SubSeq(f, Len(buf) + 1, Len(f))

\* the file opened for update without truncation ("rb+"), its bytes kept
OpenTruncate_Keep(f) == f

\* open(filename, "wb+"): the file is created or truncated
OpenTruncate(f) == << >>

---------------------------------------------------------------------------
(* OBTEntry *)

NewEntry ==
    [offset |-> -1, size |-> -1, is_compressed |-> -1, loaded |-> FALSE, raw_entry |-> None]

EntryLoad(e, offset, size, is_compressed) ==
    [e EXCEPT !.offset = offset, !.size = size,
              !.is_compressed = is_compressed, !.loaded = TRUE]

FrombytesRaises(e) == e.loaded

EntryFrombytes(e, entry) == [e EXCEPT !.size = Len(entry), !.raw_entry = entry]


---------------------------------------------------------------------------
(* OBT: helpers of load *)

\* hdr_size = int.from_bytes(self.fp.read(4), "little")
HdrSize(f) == FromBytesLE(ReadAt(f, 0, 4))

\* self.fp.seek(i * 0xC); struct.unpack("<III", self.fp.read(0xC))
RowAt(f, i) ==
    LET b == ReadAt(f, i * RowSize, RowSize)
    IN  [offset        |-> FromBytesLE(SubSeq(b, 1, 4)),
         size          |-> FromBytesLE(SubSeq(b, 5, 8)),
         is_compressed |-> FromBytesLE(SubSeq(b, 9, 12))]

\* the row at which the loop of load raises "Unknown compression method"; n if none
RECURSIVE FlagScan(_, _, _)
FlagScan(f, n, i) ==
    IF i = n \/ RowAt(f, i).is_compressed \notin {0, 1} THEN i ELSE FlagScan(f, n, i + 1)

\* what the loop of load has added to total_size after rows 0..k-1
RECURSIVE RowSizes(_, _)
RowSizes(f, k) == IF k = 0 THEN 0 ELSE RowSizes(f, k - 1) + RowAt(f, k - 1).size

\* self.entries after the loop of load has bound rows 0..k-1
BoundEntries(tab, f, k) ==
    [i \in (DOMAIN tab) \cup (0 .. k - 1) |->
        IF i < k
        THEN EntryLoad(NewEntry, RowAt(f, i).offset, RowAt(f, i).size, RowAt(f, i).is_compressed)
        ELSE tab[i]]

---------------------------------------------------------------------------
(* OBT: helpers of finalize_write *)

\* cur_off never advanced past the header: the line cur_off += ent.size left out
CurOff_NoAdvance(tab, n, i) == n * RowSize

\* cur_off when the header loop reaches row i: header_size plus the sizes before it
RECURSIVE CurOff(_, _, _)
CurOff(tab, n, i) == IF i = 0 THEN n * RowSize ELSE CurOff(tab, n, i - 1) + tab[i - 1].size

\* row i of the header loop neither misses its key nor makes struct.pack raise
RowOK(tab, n, i) ==
    /\ i \in DOMAIN tab
    /\ PackOK(CurOff(tab, n, i))
    /\ PackOK(tab[i].size)
    /\ PackOK(tab[i].is_compressed)

\* the row at which the header loop raises; n if it completes
RECURSIVE HdrScan(_, _, _)
HdrScan(tab, n, i) == IF i = n \/ ~RowOK(tab, n, i) THEN i ELSE HdrScan(tab, n, i + 1)

\* the bytes the header loop has written after rows 0..k-1
RECURSIVE HeaderBytes(_, _, _)
HeaderBytes(tab, n, k) ==
    IF k = 0 THEN << >>
    ELSE HeaderBytes(tab, n, k - 1)
           \o Pack(CurOff(tab, n, k - 1), tab[k - 1].size, tab[k - 1].is_compressed)

\* the entry at which fp.write(raw_entry) raises (raw_entry is None); n if none
RECURSIVE PayScan(_, _, _)
PayScan(tab, n, i) == IF i = n \/ tab[i].raw_entry = None THEN i ELSE PayScan(tab, n, i + 1)

\* the payload loop run from the last entry down to the first
RECURSIVE PayloadOut_Reversed(_, _)
PayloadOut_Reversed(tab, k) ==
    IF k = 0 THEN << >> ELSE tab[k - 1].raw_entry \o PayloadOut_Reversed(tab, k - 1)

\* the bytes the payload loop has written after entries 0..k-1
RECURSIVE PayloadOut(_, _)
PayloadOut(tab, k) == IF k = 0 THEN << >> ELSE PayloadOut(tab, k - 1) \o tab[k - 1].raw_entry

---------------------------------------------------------------------------
(* Inputs *)

\* the payloads a client passes to add_entry: empty, one byte, several
\* bytes; no byte value occurs twice, so that every byte of a written file
\* tells which payload and which position it came from
Blobs == { << >>, <<65>>, <<66, 67>> }

\* An initial file: the archive of n one-byte entries (entry i at offset
\* 12n + i, flags alternating), with at most one fault in row j of its header:
\* a flag outside {0, 1}, an offset past the end of the file, a size one too
\* large; or with its last byte cut off.
InitFile(n, fault, j) ==
    LET row(i) == Pack(RowSize * n + i + (IF fault = "offset" /\ i = j THEN n + 1 ELSE 0),
                       IF fault = "size" /\ i = j THEN 2 ELSE 1,
                       IF fault = "flag" /\ i = j THEN 2 ELSE i % 2)
        rows[k \in 0 .. n] == IF k = 0 THEN << >> ELSE rows[k - 1] \o row(k - 1)
        data == [i \in 1 .. (IF fault = "cut" THEN n - 1 ELSE n) |-> 96 + i]
    IN  rows[n] \o data

InitFiles ==
    { << >>, <<RowSize, 0, 0>> }
      \cup { InitFile(n, "none", 0) : n \in 1 .. MaxRows }
      \cup { InitFile(n, "cut", 0) : n \in 1 .. MaxRows }
      \cup UNION { { InitFile(n, fault, j) : j \in 0 .. n - 1, fault \in {"flag", "offset", "size"} }
                   : n \in 1 .. MaxRows }

\* res: the call, how it ended, the index a successful export_entry was given, its return value
NoPrev == [sealed |-> FALSE, adds |-> << >>]

Result(op, outcome, arg, val) == [op |-> op, outcome |-> outcome, arg |-> arg, val |-> val]

---------------------------------------------------------------------------
(* OBT *)

\* the guard testing for Read mode only, so that a writer may be opened again
AlreadyOpened_OnlyRead == mode = OBT_Read

\* if self.mode != OBTFileMode.OBT_None: raise OBTError("File is already opened")
AlreadyOpened == mode # OBT_None

\* if self.mode != OBTFileMode.OBT_Write: raise OBTError("OBT has not been opened for writing")
NotWriting == mode # OBT_Write

\* if self.mode != OBTFileMode.OBT_Read: raise OBTError("File is not opened")
NotReading == mode # OBT_Read

\* if os.path.isfile(self.filename) and not overwrite: raise OBTError("Will not overwrite ...")
WillNotOverwrite(overwrite) == file_exists /\ overwrite # 1

Init ==
    /\ file_exists \in BOOLEAN
    /\ file \in (IF file_exists THEN InitFiles ELSE { << >> })
    /\ mode = OBT_None
    /\ entries = << >>
    /\ total_size = 0
    /\ entry_offset = 0
    /\ fp = "None"
    /\ wbuf = << >>
    /\ res = Result("new", "ok", -1, None)
    /\ adds = << >>
    /\ trace = "fresh"
    /\ prev = NoPrev
    /\ rec = NewEntry
    /\ rec_res = Result("new", "ok", -1, None)

\* OBT(filename): a fresh instance on the same path, the previous handle released
New ==
    /\ fp \in {"None", "closed"}
    /\ mode' = OBT_None
    /\ entries' = << >>
    /\ total_size' = 0
    /\ entry_offset' = 0
    /\ fp' = "None"
    /\ wbuf' = << >>
    /\ res' = Result("new", "ok", -1, None)
    /\ adds' = << >>
    /\ trace' = "fresh"
    /\ prev' = IF trace = "sealed" THEN [sealed |-> TRUE, adds |-> adds] ELSE NoPrev
    /\ UNCHANGED <<file_exists, file, rec, rec_res>>

InitWrite(overwrite) ==
    /\ trace' = IF trace = "fresh" /\ (~file_exists \/ overwrite = 1) THEN "opened" ELSE "other"
    /\ prev' = NoPrev
    /\ IF AlreadyOpened
       THEN /\ res' = Result("init_write", "OBTError", -1, None)
            /\ UNCHANGED <<file_exists, file, mode, fp>>
       ELSE IF WillNotOverwrite(overwrite)
       THEN /\ res' = Result("init_write", "OBTError", -1, None)
            /\ UNCHANGED <<file_exists, file, mode, fp>>
       ELSE /\ file_exists' = TRUE
            /\ file' = OpenTruncate(file)
            /\ fp' = "wb+"
            /\ mode' = OBT_Write
            /\ res' = Result("init_write", "ok", -1, None)
    /\ UNCHANGED <<entries, total_size, entry_offset, wbuf, adds, rec, rec_res>>

Load ==
    /\ mode = OBT_None => total_size <= MaxTotal
    /\ trace' = IF trace = "fresh" THEN "read" ELSE "other"
    /\ LET raw_fsiz == Len(file)
           hdr_size == HdrSize(file)
           n_entries == hdr_size \div RowSize
           k == FlagScan(file, n_entries, 0)
           total == total_size + hdr_size + RowSizes(file, k)
       IN
       IF AlreadyOpened
       THEN /\ res' = Result("load", "OBTError", -1, None)
            /\ UNCHANGED <<mode, entries, total_size, fp>>
       ELSE IF ~file_exists
       THEN /\ res' = Result("load", "FileNotFoundError", -1, None)
            /\ UNCHANGED <<mode, entries, total_size, fp>>
       ELSE IF raw_fsiz < 4
       THEN /\ res' = Result("load", "InvalidOBTFileError", -1, None)
            /\ UNCHANGED <<mode, entries, total_size, fp>>
       ELSE IF raw_fsiz < hdr_size
       THEN /\ fp' = "rb"
            /\ res' = Result("load", "InvalidOBTFileError", -1, None)
            /\ UNCHANGED <<mode, entries, total_size>>
       ELSE /\ fp' = "rb"
            /\ entries' = BoundEntries(entries, file, k)
            /\ total_size' = total
            /\ IF k < n_entries
               THEN /\ res' = Result("load", "OBTError", -1, None)
                    /\ UNCHANGED mode
               ELSE IF raw_fsiz < total
               THEN /\ res' = Result("load", "InvalidOBTFileError", -1, None)
                    /\ UNCHANGED mode
               ELSE /\ mode' = OBT_Read
                    /\ res' = Result("load", "ok", -1, None)
    /\ UNCHANGED <<file_exists, file, entry_offset, wbuf, adds, prev, rec, rec_res>>

AddEntry(entry, compressed) ==
    /\ Len(adds) < MaxEntries
    /\ trace' = IF trace = "opened" THEN "opened" ELSE "other"
    /\ prev' = NoPrev
    /\ IF NotWriting
       THEN /\ res' = Result("add_entry", "OBTError", -1, None)
            /\ UNCHANGED <<entries, entry_offset, adds>>
       ELSE LET obt_entry == [EntryFrombytes(NewEntry, entry) EXCEPT !.is_compressed = compressed]
            IN  /\ entries' = [i \in (DOMAIN entries) \cup {entry_offset} |->
                                 IF i = entry_offset THEN obt_entry ELSE entries[i]]
                /\ entry_offset' = entry_offset + 1
                /\ adds' = Append(adds, [entry |-> entry, compressed |-> compressed])
                /\ res' = Result("add_entry", "ok", -1, None)
    /\ UNCHANGED <<file_exists, file, mode, total_size, fp, wbuf, rec, rec_res>>

FinalizeWrite ==
    /\ trace' = IF trace = "opened" THEN "finalized" ELSE "other"
    /\ prev' = NoPrev
    /\ LET n == Cardinality(DOMAIN entries)
           h == HdrScan(entries, n, 0)
           p == PayScan(entries, n, 0)
       IN
       IF NotWriting
       THEN /\ res' = Result("finalize_write", "OBTError", -1, None)
            /\ UNCHANGED <<file, wbuf>>
       ELSE IF n = 0
       THEN /\ res' = Result("finalize_write", "OBTError", -1, None)
            /\ UNCHANGED <<file, wbuf>>
       ELSE IF fp = "closed"
       THEN /\ res' = Result("finalize_write", "ValueError", -1, None)
            /\ UNCHANGED <<file, wbuf>>
       ELSE /\ file' = Flush(file, wbuf)
            /\ IF h < n
               THEN /\ wbuf' = HeaderBytes(entries, n, h)
                    /\ res' = Result("finalize_write",
                                     IF h \in DOMAIN entries THEN "struct.error" ELSE "KeyError",
                                     -1, None)
               ELSE /\ wbuf' = HeaderBytes(entries, n, n) \o PayloadOut(entries, p)
                    /\ res' = Result("finalize_write",
                                     IF p < n THEN "TypeError" ELSE "ok", -1, None)
    /\ UNCHANGED <<file_exists, mode, entries, total_size, entry_offset, fp, adds, rec, rec_res>>

ExportEntry(entry_idx) ==
    /\ trace' = IF trace = "read" THEN "read" ELSE "other"
    /\ IF NotReading
       THEN res' = Result("export_entry", "OBTError", -1, None)
       ELSE IF entry_idx \notin DOMAIN entries
       THEN res' = Result("export_entry", "TypeError", -1, None)
       ELSE IF fp = "closed"
       THEN res' = Result("export_entry", "ValueError", -1, None)
       ELSE res' = Result("export_entry", "ok", entry_idx,
                          ReadAt(file, entries[entry_idx].offset, entries[entry_idx].size))
    /\ UNCHANGED <<file_exists, file, mode, entries, total_size, entry_offset, fp, wbuf,
                   adds, prev, rec, rec_res>>

\* __exit__: the handle, if open, is closed, which flushes what was written
Exit ==
    /\ trace' = IF trace = "finalized" THEN "sealed" ELSE "other"
    /\ res' = Result("exit", "ok", -1, None)
    /\ IF fp \in {"rb", "wb+"}
       THEN /\ fp' = "closed"
            /\ file' = Flush(file, wbuf)
            /\ wbuf' = << >>
       ELSE UNCHANGED <<fp, file, wbuf>>
    /\ UNCHANGED <<file_exists, mode, entries, total_size, entry_offset, adds, prev, rec, rec_res>>

Next ==
    \/ New
    \/ \E overwrite \in {0, 1} : InitWrite(overwrite)
    \/ Load
    \/ \E entry \in Blobs, compressed \in {0, 1} : AddEntry(entry, compressed)
    \/ FinalizeWrite
    \/ \E entry_idx \in (DOMAIN entries) \cup {Cardinality(DOMAIN entries)} : ExportEntry(entry_idx)
    \/ Exit

Spec == Init /\ [][Next]_vars

---------------------------------------------------------------------------
(* A standalone OBTEntry and the two calls that change it *)

InitEntry ==
    /\ file_exists = FALSE
    /\ file = << >>
    /\ mode = OBT_None
    /\ entries = << >>
    /\ total_size = 0
    /\ entry_offset = 0
    /\ fp = "None"
    /\ wbuf = << >>
    /\ res = Result("new", "ok", -1, None)
    /\ adds = << >>
    /\ trace = "fresh"
    /\ prev = NoPrev
    /\ rec = NewEntry
    /\ rec_res = Result("new", "ok", -1, None)

\* OBTEntry(): a new record
RecNew ==
    /\ rec' = NewEntry
    /\ rec_res' = Result("new", "ok", -1, None)
    /\ UNCHANGED obt_vars

\* rec.load(offset, size, is_compressed)
RecLoad(offset, size, is_compressed) ==
    /\ rec' = EntryLoad(rec, offset, size, is_compressed)
    /\ rec_res' = Result("load", "ok", -1, None)
    /\ UNCHANGED obt_vars

\* rec.frombytes(entry)
RecFrombytes(entry) ==
    /\ IF FrombytesRaises(rec)
       THEN /\ rec_res' = Result("frombytes", "OBTError", -1, None)
            /\ UNCHANGED rec
       ELSE /\ rec' = EntryFrombytes(rec, entry)
            /\ rec_res' = Result("frombytes", "ok", -1, None)
    /\ UNCHANGED obt_vars

NextEntry ==
    \/ RecNew
    \/ \E offset \in 0 .. RowSize * MaxRows, size \in 0 .. 2, is_compressed \in {0, 1} :
          RecLoad(offset, size, is_compressed)
    \/ \E entry \in Blobs : RecFrombytes(entry)

SpecEntry == InitEntry /\ [][NextEntry]_vars

---------------------------------------------------------------------------
(* Properties *)

\* the step is a call on the instance, not the construction of a new one
SameInstance == res'.op # "new"

\* the sum of the payload lengths of entries 0..i-1
RECURSIVE SizeSum(_, _)
SizeSum(tab, i) == IF i = 0 THEN 0 ELSE SizeSum(tab, i - 1) + Len(tab[i - 1].raw_entry)

\* the little-endian uint32 at byte position pos of f
WordAt(f, pos) == FromBytesLE(SubSeq(f, pos + 1, pos + 4))

\* C1: Round trip.  When a fresh instance has written the payloads b0..b(n-1)
\* with flags f0..f(n-1) (init_write, add_entry in order, finalize_write,
\* handle closed) and the next fresh instance has loaded the file, the entry
\* table has exactly the indices 0..n-1, entry i carries flag f_i and
\* export_entry(i) returns b_i, for every i.
C1_RoundTrip ==
    (trace = "read" /\ prev.sealed) =>
        LET b == prev.adds
            n == Len(b)
        IN  /\ DOMAIN entries = 0 .. n - 1
            /\ n > 0 => mode = OBT_Read
            /\ \A i \in 0 .. n - 1 :
                  /\ entries[i].is_compressed = b[i + 1].compressed
                  /\ ReadAt(file, entries[i].offset, entries[i].size) = b[i + 1].entry
            /\ res.op = "export_entry" =>
                  (res.arg \in 0 .. n - 1 => res.outcome = "ok" /\ res.val = b[res.arg + 1].entry)

\* C1 witness: two different payloads written and loaded back, the second exported
C1_Witness ==
    /\ trace = "read"
    /\ prev.sealed
    /\ Len(prev.adds) >= 2
    /\ prev.adds[1].entry # prev.adds[2].entry
    /\ prev.adds[1].entry # << >>
    /\ prev.adds[1].compressed # prev.adds[2].compressed
    /\ res.op = "export_entry"
    /\ res.outcome = "ok"
    /\ res.arg = 1

\* the file f is the archive of the entry table tab: N rows, then the payloads
LayoutOf(f, tab) ==
    LET n == Cardinality(DOMAIN tab)
    IN  /\ DOMAIN tab = 0 .. n - 1
        /\ Len(f) = n * RowSize + SizeSum(tab, n)
        /\ WordAt(f, 0) = n * RowSize
        /\ \A i \in 0 .. n - 1 :
              LET off  == WordAt(f, i * RowSize)
                  size == WordAt(f, i * RowSize + 4)
                  flag == WordAt(f, i * RowSize + 8)
              IN  /\ off = (IF i = 0 THEN n * RowSize
                            ELSE WordAt(f, (i - 1) * RowSize) + WordAt(f, (i - 1) * RowSize + 4))
                  /\ size = Len(tab[i].raw_entry)
                  /\ flag = tab[i].is_compressed
                  /\ off + size <= Len(f)
                  /\ SubSeq(f, off + 1, off + size) = tab[i].raw_entry

\* C2: File layout.  After a successful finalize_write of N entries the file
\* (what was written, once flushed) is N 12-byte rows (offset, size, flag) in
\* index order, row 0 at offset N*12 and row i at offset(i-1) + size(i-1),
\* followed by the payloads at those offsets; its first word is N*12 and its
\* length N*12 plus the sum of the sizes.  The same holds of the file on disk
\* once the handle of a plain write is closed.
C2_FileLayout ==
    /\ (res.op = "finalize_write" /\ res.outcome = "ok") => LayoutOf(Flush(file, wbuf), entries)
    /\ (trace = "sealed" /\ adds # << >>) => LayoutOf(file, entries)

\* C2 witness: a successful finalize_write of two entries, the first non-empty
\* and the second longer
C2_Witness ==
    /\ res.op = "finalize_write"
    /\ res.outcome = "ok"
    /\ Cardinality(DOMAIN entries) >= 2
    /\ entries[0].size = 1
    /\ entries[1].size = 2

\* the file is one that the claim C3 calls malformed
Malformed(f) ==
    \/ Len(f) < 4
    \/ /\ Len(f) >= 4
       /\ \/ WordAt(f, 0) > Len(f)
          \/ /\ WordAt(f, 0) <= Len(f)
             /\ LET n == WordAt(f, 0) \div RowSize
                IN  \/ \E i \in 0 .. n - 1 : WordAt(f, i * RowSize + 8) \notin {0, 1}
                    \/ WordAt(f, 0) + RowSizes(f, n) > Len(f)

\* C3: load rejects a malformed file (shorter than 4 bytes; header size past
\* the end of the file; a flag other than 0 or 1; header size plus declared
\* sizes past the end of the file) with InvalidOBTFileError, and the instance
\* does not reach Read mode.
C3_MalformedRejected ==
    (res.op = "load" /\ file_exists /\ Malformed(file)) =>
        /\ mode # OBT_Read
        /\ mode = OBT_None => res.outcome = "InvalidOBTFileError"

\* C4: in Read mode every entry lies inside the file and export_entry(i)
\* returns exactly size_i bytes, those at offset_i .. offset_i + size_i - 1.
C4_ExportExact ==
    mode = OBT_Read =>
        /\ \A i \in DOMAIN entries : entries[i].offset + entries[i].size <= Len(file)
        /\ (res.op = "export_entry" /\ res.outcome = "ok") =>
              /\ Len(res.val) = entries[res.arg].size
              /\ res.val = SubSeq(file, entries[res.arg].offset + 1,
                                  entries[res.arg].offset + entries[res.arg].size)

\* C5: Mode lifecycle.  On one instance the mode changes only from Unopened
\* to Read or to Write, hence at most once; with the mode Read or Write, load
\* and init_write raise OBTError and leave the mode and the entry table as
\* they were; add_entry and finalize_write fail unless the mode is Write, and
\* export_entry fails unless the mode is Read.
C5_ModeLifecycle ==
    [][ SameInstance =>
          /\ mode' # mode => (mode = OBT_None /\ mode' \in {OBT_Read, OBT_Write})
          /\ (mode # OBT_None /\ res'.op \in {"load", "init_write"}) =>
                (res'.outcome = "OBTError" /\ mode' = mode /\ entries' = entries)
          /\ (mode # OBT_Write /\ res'.op \in {"add_entry", "finalize_write"}) =>
                (res'.outcome = "OBTError" /\ entries' = entries /\ wbuf' = wbuf)
          /\ (mode # OBT_Read /\ res'.op = "export_entry") => res'.outcome = "OBTError"
      ]_vars

\* C5 witness: a writer with an entry on which a further load has just failed
C5_Witness ==
    /\ mode = OBT_Write
    /\ entries # << >>
    /\ res.op = "load"
    /\ res.outcome = "OBTError"

\* C6: Overwrite guard.  init_write without overwrite on a path where a file
\* exists fails and leaves the file and the mode as they were; with overwrite,
\* on an unopened instance, it succeeds, the mode becomes Write and the file
\* is emptied; and a file whose write was finalized holds nothing but what
\* that write put there.
C6_OverwriteGuard ==
    [][ /\ (InitWrite(0) /\ file_exists) =>
              /\ res'.outcome = "OBTError"
              /\ UNCHANGED <<file_exists, file, wbuf, mode>>
        /\ (InitWrite(1) /\ file_exists /\ mode = OBT_None) =>
              /\ res'.outcome = "ok"
              /\ mode' = OBT_Write
              /\ file_exists'
              /\ file' = << >>
              /\ wbuf' = << >>
        /\ (res'.op = "finalize_write" /\ res'.outcome = "ok") =>
              /\ Flush(file', wbuf') = wbuf'
              /\ Len(wbuf') = Cardinality(DOMAIN entries') * RowSize
                                + SizeSum(entries', Cardinality(DOMAIN entries'))
      ]_vars

\* C6 witness: init_write has just been refused on an unopened instance whose
\* path holds a non-empty file
C6_Witness ==
    /\ res.op = "init_write"
    /\ res.outcome = "OBTError"
    /\ mode = OBT_None
    /\ file_exists
    /\ file # << >>

\* C7: Sequential index assignment.  In Write mode, after k successful
\* add_entry calls the indices of the entry table are exactly 0..k-1 and entry
\* i holds the payload and the flag of the (i+1)-th call, whatever was called
\* on the instance before it entered Write mode.
C7_SequentialIndex ==
    mode = OBT_Write =>
        /\ DOMAIN entries = 0 .. Len(adds) - 1
        /\ \A i \in 0 .. Len(adds) - 1 :
              /\ entries[i].raw_entry = adds[i + 1].entry
              /\ entries[i].is_compressed = adds[i + 1].compressed

\* C8: Entry record invariant.  An OBTEntry is never both loaded and holding
\* a payload.
C8_NeverBoth == ~(rec.loaded /\ rec.raw_entry # None)

\* a load that raised at a validation step has just returned
LoadJustFailed ==
    /\ res.op = "load"
    /\ mode = OBT_None
    /\ res.outcome \in {"InvalidOBTFileError", "OBTError"}

\* C9: a failed load exposes no partial state and leaves the instance
\* unusable: when load raises at a validation step the entry table holds no
\* bound entry and total_size is as before, and the next load, init_write,
\* add_entry, finalize_write or export_entry on the instance fails.
C9_FailedLoadUnusable ==
    [][ /\ LoadJustFailed' =>
              /\ total_size' = total_size
              /\ \A i \in DOMAIN entries' : ~entries'[i].loaded
        /\ (LoadJustFailed /\ res'.op \notin {"new", "exit"}) => res'.outcome # "ok"
      ]_vars

\* C10: Writes are all-or-nothing.  A finalize_write that fails has written
\* no byte; one that succeeds has written the whole header and every payload.
C10_AllOrNothing ==
    [][ res'.op = "finalize_write" =>
          IF res'.outcome = "ok"
          THEN Len(wbuf') = Cardinality(DOMAIN entries) * RowSize
                              + SizeSum(entries, Cardinality(DOMAIN entries))
          ELSE \/ UNCHANGED <<file, wbuf>>
               \/ file' = Flush(file, wbuf) /\ wbuf' = << >>
      ]_vars

===========================================================================
